---- MODULE Spec2Model ----
(***************************************************************************)
(* Model of the anomaly-detection backend (anomaly_backend/api.py and      *)
(* anomaly_backend/main.py): the shared ProcessingState record, the        *)
(* request handlers of the API server that read and write it, the          *)
(* background worker run_anomaly_detection_with_callback, the command-line *)
(* pipeline AnomalyDetectionSystem.run_full_pipeline and the run-history   *)
(* file kept by save_run_history.                                          *)
(*                                                                         *)
(* Specifications: Spec is the API server with two start requests;         *)
(* ControlSpec is the API server with stop requests and the signal         *)
(* handler; RunSpec is one pipeline by itself, started through the API or  *)
(* from the command line, and FairRunSpec adds that a started thread keeps *)
(* running; HistorySpec calls save_run_history repeatedly; LockSpec is     *)
(* ProcessingState with its lock and the dictionary operations split key   *)
(* by key; DetectSpec calls detect_anomalies on one feature matrix with    *)
(* several thresholds; ExportSpec calls export_results with finite and     *)
(* other losses; TrainSpec calls train_model, in one process or in a new   *)
(* one; ConfigSpec is the API server with stop and configuration requests  *)
(* and UploadSpec the API server with a file upload or an automation       *)
(* request, whose run_detection.py subprocess runs next to the worker.     *)
(*                                                                         *)
(* Strings of the program are kept as short ASCII tokens.  Python's None   *)
(* is the token "None"; the tri-state success field holds "None", "True"   *)
(* or "False".  Loss scores and the threshold are in tenths (15 = 1.5).    *)
(***************************************************************************)
EXTENDS Integers, Sequences, FiniteSets, TLC

\* ------------------------------------------------------------- bounds ----
MaxStarts == 2        \* POST /api/start requests the server receives
MaxRuns == 1          \* start requests of the run specification
MaxSamples == 1       \* rows of the data file
MaxCliRuns == 1       \* runs of run_detection.py / main.py
MaxInserts == 102     \* save_run_history calls of the history specification
MaxFailedInserts == 1 \* of which with success = false
MaxLockOps == 1       \* update/reset calls per writer of the lock specification
MaxConfigPosts == 1   \* POST /api/config requests the server receives
MaxRows == 2          \* rows of the feature matrix of the detector specification
MaxDetectCalls == 2   \* detect_anomalies calls of the detector specification
MaxExports == 2       \* export_results calls of the exporter specification
MaxTrainCalls == 2    \* train_model calls of the trainer specification

\* -------------------------------------------------- program constants ----
HistoryCap == 100
DefaultThreshold == 15
ConfigThreshold == 5

None == "None"

VARIABLES
    entry,       \* what runs: "api" (api.py), "cli" (run_detection.py, main.py),
                 \* "history" (calls of save_run_history), "lock" (ProcessingState),
                 \* "detect", "export", "train" (calls of one stage function)
    state,       \* processing_state._state (api.py:83)
    wpc,         \* position of each worker thread
    wl,          \* locals of each worker: features, anomalies, losses, error_msg,
                 \* and those of handle_alerts
    wcfg,        \* the configuration each worker loaded (api.py:235)
    published,   \* per worker: the progress values passed to callback.update
    calls,       \* per worker: the stage functions called so far, with their results
    rpc,         \* position of each start request
    resp,        \* the last response of start_detection
    spc,         \* position of the stop request in flight
    ssnap,       \* current_state["progress"] read by the stop request
    sigpc,       \* position of the signal handler
    serverUp,    \* FALSE after sys.exit(0) in signal_handler
    config,      \* config.json
    dataFile,    \* data/traffic.csv: number of rows, -1 when the file is missing
    dataSrc,     \* where the content of the data file comes from: "none",
                 \* "generated" (generate_random_traffic.py) or "uploaded"; two
                 \* outputs of the generator are not told apart
    modelFile,   \* model/autoencoder.pth exists
    resultFile,  \* result.json
    alertLog,    \* alert.csv: its rows
    mailed,      \* the alert e-mails handed to the SMTP server so far
    history,     \* history.json: the list of records ([] when missing or empty)
    clock,       \* datetime.now(), counted in history writes
    cpc,         \* position of the run_detection.py process (command line or
                 \* subprocess of upload_file)
    cl,          \* its locals
    ccalls,      \* the stage functions it called so far, with their results
    cret,        \* return values of the finished run_full_pipeline calls
    failedInserts, \* save_run_history(False, ...) calls of the history specification
    lk,          \* the lock specification: a ProcessingState and its threads
    dt,          \* the detector specification: the losses of the rows and what
                 \* the detect_anomalies calls returned
    creq,        \* the POST /api/config request in flight, the number of such
                 \* requests so far and the last response
    ex,          \* the exporter specification: the export_results calls so far
                 \* and the arguments of the last one
    tr           \* the trainer specification: the random state of the process
                 \* and the train_model calls so far

workerVars == <<wpc, wl, wcfg, published, calls>>
requestVars == <<rpc, resp, spc, ssnap, sigpc, serverUp>>
fileVars ==
    <<config, dataFile, dataSrc, modelFile, resultFile, alertLog, mailed, history, clock>>
cliVars == <<cpc, cl, ccalls, cret>>
otherVars == <<entry, failedInserts, lk, dt, creq, ex, tr>>

vars == <<state, workerVars, requestVars, fileVars, cliVars, otherVars>>

Workers == 1..MaxStarts

\* ------------------------------------------------- ProcessingState -------
InitialState ==
    [is_running |-> FALSE, progress |-> 0, message |-> "ready", last_run |-> None,
     anomalies_count |-> 0, total_samples |-> 0, success |-> None, error |-> None,
     run_id |-> 0, start_time |-> None, estimated_finish |-> None]

\* the dictionary reset() stores (api.py:109-118)
ResetKw ==
    [is_running |-> FALSE, progress |-> 0, message |-> "ready", success |-> None,
     error |-> None, run_id |-> 0, start_time |-> None, estimated_finish |-> None]

\* dict.update(kwargs) on the state record
DictUpdate(s, kw) ==
    [k \in DOMAIN s |-> IF k \in DOMAIN kw THEN kw[k] ELSE s[k]]

\* ProcessingState.update: the whole dict.update runs inside `with self._lock`
StateUpdate(s, kw) == DictUpdate(s, kw)

\* ProcessingState.get_state: a copy taken inside `with self._lock`
GetState(s) == s

\* ProgressCallback.update(progress, message)
CallbackKw(progress, message) ==
    [progress |-> progress, message |-> message,
     estimated_finish |-> IF progress > 0 THEN "eta" ELSE None]

\* --------------------------------------------------------- the files -----
\* the keys of the default configuration the pipeline reads; credentials
\* says whether email_recipient, smtp_server, smtp_port, smtp_user,
\* smtp_password and from_email are all set (four of them default to "")
DefaultConfig ==
    [generate_random_data |-> TRUE, export_results |-> TRUE,
     threshold |-> ConfigThreshold, email_alerts |-> FALSE, credentials |-> FALSE]

NoResult == [exists |-> FALSE, anomalies |-> <<>>, losses |-> <<>>]

\* the floats that are not finite, as numbers no finite loss of the model
\* equals: float('nan'), float('inf') and float('-inf')
NaN == 1000001
PosInf == 1000000
NegInf == -1000000

\* np.isnan(x)
IsNaN(x) == x = NaN

\* a test that finds every non-finite float
IsNotFinite(x) == x \in {NaN, PosInf, NegInf}

\* export_results: losses_clean = [0 if isnan(x) else x for x in losses]
CleanLosses(losses) ==
    [i \in 1..Len(losses) |-> IF IsNaN(losses[i]) THEN 0 ELSE losses[i]]

\* export_results: the object json.dump writes over the file opened with "w"
ExportArtifact(anomalies, losses) ==
    [exists |-> TRUE, anomalies |-> anomalies, losses |-> CleanLosses(losses)]

\* reconstruction losses of a row: at the threshold and above it
LossVals == {DefaultThreshold, DefaultThreshold + 5}

\* sum(anomalies): the number of true flags
RECURSIVE CountTrue(_)
CountTrue(flags) ==
    IF flags = <<>> THEN 0
    ELSE (IF Head(flags) THEN 1 ELSE 0) + CountTrue(Tail(flags))

\* anomaly_rate of a run record: the quotient anomalies_count / total_samples
\* * 100 kept exact as <<numerator, denominator>>; 0 is <<0, 1>>
AnomalyRate(anomalies_count, total_samples) ==
    IF total_samples > 0 THEN <<anomalies_count * 100, total_samples>>
    ELSE <<0, 1>>

\* run_record of save_run_history
RunRecord(now, success, anomalies_count, total_samples) ==
    [timestamp |-> now, success |-> success,
     anomalies_count |-> anomalies_count, total_samples |-> total_samples,
     anomaly_rate |-> AnomalyRate(anomalies_count, total_samples)]

\* history[:n], the oldest records kept
FirstN(h, n) ==
    IF Len(h) > n THEN SubSeq(h, 1, n) ELSE h

\* history[-n:]
LastN(h, n) ==
    IF Len(h) > n THEN SubSeq(h, Len(h) - n + 1, Len(h)) ELSE h

\* save_run_history: read the list, append the record, keep the last 100, write
SaveRunHistory(h, now, success, anomalies_count, total_samples) ==
    LET appended == Append(h, RunRecord(now, success, anomalies_count, total_samples))
    IN  IF Len(appended) > HistoryCap THEN LastN(appended, HistoryCap) ELSE appended

\* a comparison that flags a loss at the threshold as well
DetectFlagsAtLeast(losses, threshold) ==
    [i \in 1..Len(losses) |-> losses[i] >= threshold]

\* a comparison that flags the losses below the threshold
DetectFlagsBelow(losses, threshold) ==
    [i \in 1..Len(losses) |-> losses[i] < threshold]

\* detect_anomalies: anomalies = loss > threshold, element by element
DetectFlags(losses, threshold) ==
    [i \in 1..Len(losses) |-> losses[i] > threshold]

\* the threshold detect_anomalies_in_data applies: it calls
\* detect_anomalies(features) and so the default of the parameter
DetectionThreshold(cfg) == DefaultThreshold

\* generate_data: TRUE without a subprocess when generation is switched off
GenerateSkipped(cfg) == ~cfg.generate_random_data

\* generate_random_traffic.py writes num_rows rows; the bound stands for it
GeneratedRows == MaxSamples

\* load_and_extract_features: can it return a matrix for this data file?
\* (a missing file raises FileNotFoundError, StandardScaler rejects 0 rows)
Extractable(rows) == rows >= 1

\* export_detection_results: TRUE without writing when export is switched off
ExportSkipped(cfg) == ~cfg.export_results

\* the rows of alert.csv: the header, and the row of the record at position
\* pos of the content src of the data file
HeaderRow == [header |-> TRUE, src |-> "none", pos |-> 0]

DataRow(src, pos) == [header |-> FALSE, src |-> src, pos |-> pos]

\* a zero check that never finds the count zero
NothingToAlertNever(anomalies) == FALSE

\* handle_alerts: `if anomalies_count == 0: return`
NothingToAlert(anomalies) == CountTrue(anomalies) = 0

\* df[anomalies.astype(bool)]: the records of the data file, as it is when
\* handle_alerts reads it, at the flagged positions, in file order
AbnormalSamples(src, anomalies) ==
    LET Flagged(i) == anomalies[i]
        at == SelectSeq([i \in 1..Len(anomalies) |-> i], Flagged)
    IN  [k \in 1..Len(at) |-> DataRow(src, at[k])]

\* the boolean mask must be as long as the file that is read
Maskable(rows, anomalies) == rows = Len(anomalies)

\* send_alert_to_file: the header when f.tell() was 0 after open, then a row
\* per abnormal record
AlertRows(tell0, samples) ==
    (IF tell0 THEN <<HeaderRow>> ELSE <<>>) \o samples

\* an e-mail branch that looks at the toggle only
MailWantedToggleOnly(cfg) == cfg.email_alerts

\* main.py:288-296: send_alert_email is called when email_alerts is on and
\* each of the six settings is truthy
MailWanted(cfg) == cfg.email_alerts /\ cfg.credentials

\* generate_data (main.py:172-198): skipped when switched off, else the
\* generator script rewrites the data file or fails
GenerateData(cfg, ok) ==
    IF GenerateSkipped(cfg) THEN ok /\ UNCHANGED <<dataFile, dataSrc>>
    ELSE IF ok THEN dataFile' = GeneratedRows /\ dataSrc' = "generated"
         ELSE UNCHANGED <<dataFile, dataSrc>>

\* detect_anomalies_in_data (main.py:227-242): the flags and the losses
Detected(locals, cfg, losses) ==
    [locals EXCEPT !.losses = losses,
                   !.anomalies = DetectFlags(losses, DetectionThreshold(cfg))]

\* handle_alerts up to the open of the alert file (main.py:252-256 and
\* alert.py:35-39): the data file is read again and masked by the flags, the
\* alert file is opened for appending and f.tell() says whether it is empty
AlertOpen(locals) ==
    [locals EXCEPT !.samples = AbnormalSamples(dataSrc, locals.anomalies),
                   !.tell0 = (alertLog = <<>>)]

\* the rest of handle_alerts (alert.py:39-45 and main.py:287-299): the rows
\* reach the file when it is closed, then the e-mail is sent if wanted;
\* written is FALSE when the write raised, sent is FALSE when the e-mail
\* failed; the result says whether nothing went wrong
AlertSend(cfg, locals, written, sent) ==
    /\ alertLog' = IF written THEN alertLog \o AlertRows(locals.tell0, locals.samples)
                   ELSE alertLog
    /\ mailed' = IF written /\ MailWanted(cfg) /\ sent THEN mailed + 1 ELSE mailed

AlertSent(cfg, written, sent) == written /\ (MailWanted(cfg) => sent)

\* handle_alerts has returned: its locals are gone
AlertClosed(locals) == [locals EXCEPT !.samples = <<>>, !.tell0 = FALSE]

\* export_detection_results (main.py:304-317): the returned flag is ok
ExportResults(cfg, anomalies, losses, ok) ==
    IF ExportSkipped(cfg) THEN ok /\ UNCHANGED resultFile
    ELSE IF ok
         THEN resultFile' = ExportArtifact(anomalies, losses)
         ELSE UNCHANGED resultFile

\* an entry of a call trace
CallOf(stage, ok) == [stage |-> stage, ok |-> ok]

\* ---------------------------------------------------------- the worker ---
NoLocals == [features |-> 0, source |-> "none", anomalies |-> <<>>, losses |-> <<>>,
             samples |-> <<>>, tell0 |-> FALSE, error |-> None, read |-> <<>>]

\* api.py:222-230: the first update of a run
InitKw(run_id) ==
    [is_running |-> TRUE, progress |-> 0, message |-> "starting", run_id |-> run_id,
     start_time |-> "now", success |-> None, error |-> None]

\* api.py:291-298: the update that ends a successful run
SuccessKw(anomalies_count, total_samples) ==
    [is_running |-> FALSE, last_run |-> "now", anomalies_count |-> anomalies_count,
     total_samples |-> total_samples, success |-> "True", error |-> None]

\* an except branch that leaves is_running as it is
FailureKwStillRunning(error_msg) ==
    [progress |-> 0, message |-> "error: " \o error_msg,
     last_run |-> "now", success |-> "False", error |-> error_msg]

\* api.py:306-314: the update of the except branch
FailureKw(error_msg) ==
    [is_running |-> FALSE, progress |-> 0, message |-> "error: " \o error_msg,
     last_run |-> "now", success |-> "False", error |-> error_msg]

\* a pipeline that goes on after a failed step
AfterStageIgnored(ok, next) == next

\* `if not system.<stage>(): raise Exception(...)` in the worker and
\* `if not self.<stage>(): return False` in run_full_pipeline
AfterStage(ok, next) == IF ok THEN next ELSE "fail"

\* an alerting step whose failure is raised like the others
AfterAlertChecked(ok) == IF ok THEN "export" ELSE "fail"

\* handle_alerts returns nothing and catches its exceptions (main.py:301-302);
\* the caller goes on to the export (api.py:279-281, main.py:393-395)
AfterAlert(ok) == "export"

\* api.py:283: the worker calls export_detection_results and drops its result
AfterExport(ok) == "save"

\* the progress values of training and detection exchanged
StageProgressSwapped(pc) ==
    CASE pc = "gen" -> 10 [] pc = "extract" -> 30 [] pc = "train" -> 70
      [] pc = "detect" -> 50 [] pc = "alert" -> 85 [] pc = "export" -> 95
      [] pc = "p100" -> 100

StageProgress(pc) ==
    CASE pc = "gen" -> 10 [] pc = "extract" -> 30 [] pc = "train" -> 50
      [] pc = "detect" -> 70 [] pc = "alert" -> 85 [] pc = "export" -> 95
      [] pc = "p100" -> 100

StageMessage(pc) ==
    CASE pc = "gen" -> "generating" [] pc = "extract" -> "extracting"
      [] pc = "train" -> "training" [] pc = "detect" -> "detecting"
      [] pc = "alert" -> "alerting" [] pc = "export" -> "exporting"
      [] pc = "p100" -> "completed"

Serving == entry = "api" /\ serverUp

\* callback.update(progress, message) at the worker's position
Publish(w) ==
    /\ state' = StateUpdate(state, CallbackKw(StageProgress(wpc[w]), StageMessage(wpc[w])))
    /\ published' = [published EXCEPT ![w] = Append(@, StageProgress(wpc[w]))]

\* the call of a stage function and what it returned, entered in the trace
Call(w, stage, ok) == calls' = [calls EXCEPT ![w] = Append(@, CallOf(stage, ok))]

\* the worker moves on; a raised Exception(msg) lands in the except branch
\* with error_msg = msg
Goto(w, next, msg, locals) ==
    /\ wpc' = [wpc EXCEPT ![w] = next]
    /\ wl' = [wl EXCEPT ![w] = IF next = "fail" THEN [locals EXCEPT !.error = msg]
                                ELSE locals]

\* api.py:213-230: run_id and the first update of the state
WorkerInit(w) ==
    /\ Serving /\ wpc[w] = "init"
    /\ state' = StateUpdate(state, InitKw(w))
    /\ wpc' = [wpc EXCEPT ![w] = "gen"]
    /\ UNCHANGED <<wl, wcfg, published, calls>>
    /\ UNCHANGED <<requestVars, fileVars, cliVars, otherVars>>

\* api.py:235-256: load the configuration, publish 10%, generate_data
WorkerGenerate(w) ==
    /\ Serving /\ wpc[w] = "gen"
    /\ wcfg' = [wcfg EXCEPT ![w] = config]
    /\ Publish(w)
    /\ \E ok \in BOOLEAN :
          /\ GenerateData(config, ok)
          /\ Call(w, "generate_data", ok)
          /\ Goto(w, AfterStage(ok, "extract"), "cannot generate data", wl[w])
    /\ UNCHANGED <<config, modelFile, resultFile, alertLog, mailed, history, clock>>
    /\ UNCHANGED <<requestVars, cliVars, otherVars>>

\* api.py:257-260: publish 30%, load_and_extract_features
WorkerExtract(w) ==
    /\ Serving /\ wpc[w] = "extract"
    /\ Publish(w)
    /\ \E ok \in BOOLEAN :
          /\ ok => Extractable(dataFile)
          /\ Call(w, "load_and_extract_features", ok)
          /\ Goto(w, AfterStage(ok, "train"), "cannot extract features",
                  IF ok THEN [wl[w] EXCEPT !.features = dataFile, !.source = dataSrc]
                  ELSE wl[w])
    /\ UNCHANGED wcfg
    /\ UNCHANGED <<requestVars, fileVars, cliVars, otherVars>>

\* api.py:262-265: publish 50%, train_model
WorkerTrain(w) ==
    /\ Serving /\ wpc[w] = "train"
    /\ Publish(w)
    /\ \E ok \in BOOLEAN :
          /\ modelFile' = (modelFile \/ ok)
          /\ Call(w, "train_model", ok)
          /\ Goto(w, AfterStage(ok, "detect"), "cannot train model", wl[w])
    /\ UNCHANGED wcfg
    /\ UNCHANGED <<config, dataFile, dataSrc, resultFile, alertLog, mailed, history, clock>>
    /\ UNCHANGED <<requestVars, cliVars, otherVars>>

\* api.py:267-275: publish 70%, detect_anomalies_in_data
WorkerDetect(w) ==
    /\ Serving /\ wpc[w] = "detect"
    /\ Publish(w)
    /\ \/ /\ modelFile
          /\ \E losses \in [1..wl[w].features -> LossVals] :
                Goto(w, AfterStage(TRUE, "alert"), "cannot detect anomalies",
                     Detected(wl[w], wcfg[w], losses))
          /\ Call(w, "detect_anomalies_in_data", TRUE)
       \/ /\ Goto(w, AfterStage(FALSE, "alert"), "cannot detect anomalies", wl[w])
          /\ Call(w, "detect_anomalies_in_data", FALSE)
    /\ UNCHANGED wcfg
    /\ UNCHANGED <<requestVars, fileVars, cliVars, otherVars>>

\* api.py:277-279: publish 85%, handle_alerts: nothing for a zero count,
\* else the records are read and the alert file is opened; an exception
\* there is caught inside handle_alerts
WorkerAlert(w) ==
    /\ Serving /\ wpc[w] = "alert"
    /\ Publish(w)
    /\ IF NothingToAlert(wl[w].anomalies)
       THEN /\ Call(w, "handle_alerts", TRUE)
            /\ Goto(w, AfterAlert(TRUE), "cannot send alerts", wl[w])
       ELSE \E ok \in BOOLEAN :
               /\ ok => Maskable(dataFile, wl[w].anomalies)
               /\ IF ok
                  THEN UNCHANGED calls /\ Goto(w, "append", "", AlertOpen(wl[w]))
                  ELSE /\ Call(w, "handle_alerts", FALSE)
                       /\ Goto(w, AfterAlert(FALSE), "cannot send alerts", wl[w])
    /\ UNCHANGED wcfg
    /\ UNCHANGED <<requestVars, fileVars, cliVars, otherVars>>

\* handle_alerts goes on: the rows are appended, the e-mail is sent
WorkerAppend(w) ==
    /\ Serving /\ wpc[w] = "append"
    /\ \E written \in BOOLEAN, sent \in BOOLEAN :
          /\ ~MailWanted(wcfg[w]) \/ ~written => sent
          /\ AlertSend(wcfg[w], wl[w], written, sent)
          /\ Call(w, "handle_alerts", AlertSent(wcfg[w], written, sent))
          /\ Goto(w, AfterAlert(AlertSent(wcfg[w], written, sent)),
                  "cannot send alerts", AlertClosed(wl[w]))
    /\ UNCHANGED <<state, wcfg, published>>
    /\ UNCHANGED <<config, dataFile, dataSrc, modelFile, resultFile, history, clock>>
    /\ UNCHANGED <<requestVars, cliVars, otherVars>>

\* api.py:281-283: publish 95%, export_detection_results
WorkerExport(w) ==
    /\ Serving /\ wpc[w] = "export"
    /\ Publish(w)
    /\ \E ok \in BOOLEAN :
          /\ ExportResults(wcfg[w], wl[w].anomalies, wl[w].losses, ok)
          /\ Call(w, "export_detection_results", ok)
          /\ Goto(w, AfterExport(ok), "cannot export results", wl[w])
    /\ UNCHANGED wcfg
    /\ UNCHANGED <<config, dataFile, dataSrc, modelFile, alertLog, mailed, history, clock>>
    /\ UNCHANGED <<requestVars, cliVars, otherVars>>

\* api.py:285-286 and main.py:322-333: save_run_history reads history.json
WorkerSaveRead(w) ==
    /\ Serving /\ wpc[w] = "save"
    /\ wl' = [wl EXCEPT ![w].read = history]
    /\ wpc' = [wpc EXCEPT ![w] = "write"]
    /\ UNCHANGED <<state, wcfg, published, calls>>
    /\ UNCHANGED <<requestVars, fileVars, cliVars, otherVars>>

\* main.py:335-360: save_run_history appends the record to the list it read,
\* truncates and writes history.json
WorkerSaveWrite(w) ==
    /\ Serving /\ wpc[w] = "write"
    /\ history' = SaveRunHistory(wl[w].read, clock, TRUE,
                                 CountTrue(wl[w].anomalies), Len(wl[w].anomalies))
    /\ clock' = clock + 1
    /\ Call(w, "save_run_history", TRUE)
    /\ wpc' = [wpc EXCEPT ![w] = "p100"]
    /\ wl' = [wl EXCEPT ![w].read = <<>>]
    /\ UNCHANGED <<state, wcfg, published>>
    /\ UNCHANGED <<config, dataFile, dataSrc, modelFile, resultFile, alertLog, mailed>>
    /\ UNCHANGED <<requestVars, cliVars, otherVars>>

\* api.py:288-289: callback.update(100, ...)
WorkerPublish100(w) ==
    /\ Serving /\ wpc[w] = "p100"
    /\ Publish(w)
    /\ wpc' = [wpc EXCEPT ![w] = "final"]
    /\ UNCHANGED <<wl, wcfg, calls>>
    /\ UNCHANGED <<requestVars, fileVars, cliVars, otherVars>>

\* the thread ends: its locals are gone
WorkerEnds(w) ==
    /\ wpc' = [wpc EXCEPT ![w] = "done"]
    /\ wl' = [wl EXCEPT ![w] = NoLocals]
    /\ wcfg' = [wcfg EXCEPT ![w] = DefaultConfig]
    /\ published' = [published EXCEPT ![w] = <<>>]
    /\ calls' = [calls EXCEPT ![w] = <<>>]

\* api.py:291-298: the update that ends a successful run
WorkerFinal(w) ==
    /\ Serving /\ wpc[w] = "final"
    /\ state' = StateUpdate(state, SuccessKw(CountTrue(wl[w].anomalies),
                                             Len(wl[w].anomalies)))
    /\ WorkerEnds(w)
    /\ UNCHANGED <<requestVars, fileVars, cliVars, otherVars>>

\* api.py:302-314: the except branch
WorkerFail(w) ==
    /\ Serving /\ wpc[w] = "fail"
    /\ state' = StateUpdate(state, FailureKw(wl[w].error))
    /\ WorkerEnds(w)
    /\ UNCHANGED <<requestVars, fileVars, cliVars, otherVars>>

\* the steps of worker w
WorkerNext(w) ==
    \/ WorkerInit(w) \/ WorkerGenerate(w) \/ WorkerExtract(w) \/ WorkerTrain(w)
    \/ WorkerDetect(w) \/ WorkerAlert(w) \/ WorkerAppend(w) \/ WorkerExport(w)
    \/ WorkerSaveRead(w)
    \/ WorkerSaveWrite(w) \/ WorkerPublish100(w) \/ WorkerFinal(w) \/ WorkerFail(w)

\* ----------------------------------------------- the request handlers ----
NoResponse == [error |-> None, run_id |-> 0]

\* start_detection: `if current_state["is_running"]` rejects, else goes on
StartAccepts(current_state) == ~current_state.is_running

\* api.py:367-393: read the state, reject or check the resources and start
\* the worker thread (requests are numbered in the order they arrive)
StartDetection(r) ==
    /\ Serving /\ rpc[r] = "idle"
    /\ r > 1 => rpc[r - 1] # "idle"
    /\ LET current_state == GetState(state) IN
       IF StartAccepts(current_state)
       THEN \E resources \in BOOLEAN :
               IF resources
               THEN /\ wpc' = [wpc EXCEPT ![r] = "init"]
                    /\ rpc' = [rpc EXCEPT ![r] = "started"]
                    /\ UNCHANGED resp
               ELSE /\ rpc' = [rpc EXCEPT ![r] = "done"]
                    /\ resp' = [error |-> "INSUFFICIENT_RESOURCES", run_id |-> 0]
                    /\ UNCHANGED wpc
       ELSE /\ rpc' = [rpc EXCEPT ![r] = "done"]
            /\ resp' = [error |-> "ALREADY_RUNNING", run_id |-> 0]
            /\ UNCHANGED wpc
    /\ UNCHANGED <<state, wl, wcfg, published, calls>>
    /\ UNCHANGED <<spc, ssnap, sigpc, serverUp>>
    /\ UNCHANGED <<fileVars, cliVars, otherVars>>

\* api.py:395-399: the response carries processing_state.get_state()["run_id"]
StartRespond(r) ==
    /\ Serving /\ rpc[r] = "started"
    /\ rpc' = [rpc EXCEPT ![r] = "done"]
    /\ resp' = [error |-> None, run_id |-> GetState(state).run_id]
    /\ UNCHANGED <<state, workerVars>>
    /\ UNCHANGED <<spc, ssnap, sigpc, serverUp>>
    /\ UNCHANGED <<fileVars, cliVars, otherVars>>

\* a stop request that clears the error as well
StopKwClearing(current_progress) ==
    [message |-> "stop requested", progress |-> current_progress, error |-> None]

\* the update stop_processing makes from the state it read before
StopKw(current_progress) ==
    [message |-> "stop requested", progress |-> current_progress]

\* api.py:403-412: read the state; NOT_RUNNING ends the request
StopCheck ==
    /\ Serving /\ spc = "idle"
    /\ LET current_state == GetState(state) IN
       IF current_state.is_running
       THEN spc' = "update" /\ ssnap' = current_state.progress
       ELSE UNCHANGED <<spc, ssnap>>
    /\ UNCHANGED <<state, workerVars>>
    /\ UNCHANGED <<rpc, resp, sigpc, serverUp>>
    /\ UNCHANGED <<fileVars, cliVars, otherVars>>

\* api.py:414-418: processing_state.update(message=..., progress=...)
StopUpdate ==
    /\ Serving /\ spc = "update"
    /\ state' = StateUpdate(state, StopKw(ssnap))
    /\ spc' = "idle" /\ ssnap' = 0
    /\ UNCHANGED workerVars
    /\ UNCHANGED <<rpc, resp, sigpc, serverUp>>
    /\ UNCHANGED <<fileVars, cliVars, otherVars>>

\* api.py:348-362: get_status answers with a copy of the state
GetStatus ==
    /\ Serving
    /\ UNCHANGED <<state, workerVars, requestVars, fileVars, cliVars, otherVars>>

\* the update signal_handler makes when a run is in progress
ShutdownKw == [message |-> "server shutting down", error |-> "server shut down"]

\* api.py:943-948: signal_handler reads is_running
SignalCheck ==
    /\ Serving /\ sigpc = "none"
    /\ IF GetState(state).is_running
       THEN sigpc' = "update" /\ UNCHANGED serverUp
       ELSE sigpc' = "exit" /\ serverUp' = FALSE
    /\ UNCHANGED <<state, workerVars>>
    /\ UNCHANGED <<rpc, resp, spc, ssnap>>
    /\ UNCHANGED <<fileVars, cliVars, otherVars>>

\* api.py:949-956: the update, then sys.exit(0)
SignalUpdate ==
    /\ Serving /\ sigpc = "update"
    /\ state' = StateUpdate(state, ShutdownKw)
    /\ sigpc' = "exit" /\ serverUp' = FALSE
    /\ UNCHANGED workerVars
    /\ UNCHANGED <<rpc, resp, spc, ssnap>>
    /\ UNCHANGED <<fileVars, cliVars, otherVars>>

\* ------------------------------------------------ POST /api/config -------
\* allowed_fields of _validate_config_updates
AllowedFields ==
    {"batch_size", "epochs", "learning_rate", "threshold", "data_path",
     "model_path", "alert_file"}

\* the keys a request body may carry: some of the allowed fields, some keys
\* of the default configuration (main.py:113-128) and a key nobody knows
RequestKeys ==
    {"threshold", "epochs", "batch_size", "generate_random_data", "email_alerts",
     "unknown_key"}

\* the value a request gives to a key (tokens, but for the threshold)
NewValue(k) ==
    CASE k = "threshold" -> DefaultThreshold
      [] k \in {"generate_random_data", "email_alerts"} -> FALSE
      [] OTHER -> "new"

\* the request bodies: a JSON object with one or more keys; ints says whether
\* the values of batch_size and epochs are integers
ConfigUpdates ==
    {[keys |-> ks, ints |-> b] : ks \in (SUBSET RequestKeys) \ {{}}, b \in BOOLEAN}

\* _validate_config_updates raises no ValueError: no key outside the allowed
\* fields, batch_size and epochs are integers
UpdatesValid(updates) ==
    /\ updates.keys \ AllowedFields = {}
    /\ (updates.keys \cap {"batch_size", "epochs"}) # {} => updates.ints

\* AnomalyDetectionConfig.update: self.config.update(updates), then the file
\* is written
ConfigUpdate(cfg, updates) ==
    [k \in DOMAIN cfg \cup updates.keys |->
        IF k \in updates.keys THEN NewValue(k) ELSE cfg[k]]

NoUpdates == [keys |-> {}, ints |-> TRUE]

\* no request yet; body is the body of the request answered last
NoConfigRequest == [pc |-> "idle", posts |-> 0, resp |-> None, body |-> NoUpdates]

\* api.py:543-550: a run in progress ends the request with PROCESS_RUNNING
ConfigCheck ==
    /\ Serving /\ creq.pc = "idle" /\ creq.posts < MaxConfigPosts
    /\ IF GetState(state).is_running
       THEN creq' = [creq EXCEPT !.posts = @ + 1, !.resp = "PROCESS_RUNNING",
                                 !.body = NoUpdates]
       ELSE creq' = [creq EXCEPT !.posts = @ + 1, !.pc = "update"]
    /\ UNCHANGED <<state, workerVars, requestVars, fileVars, cliVars>>
    /\ UNCHANGED <<entry, failedInserts, lk, dt, ex, tr>>

\* api.py:552-570: the body is validated (a ValueError is answered with
\* VALIDATION_ERROR by handle_api_error, api.py:178-184), else the
\* configuration is updated and the answer names the updated fields
ConfigWrite ==
    /\ Serving /\ creq.pc = "update"
    /\ \E updates \in ConfigUpdates :
          IF UpdatesValid(updates)
          THEN /\ config' = ConfigUpdate(config, updates)
               /\ creq' = [creq EXCEPT !.pc = "idle", !.resp = "success",
                                       !.body = updates]
          ELSE /\ UNCHANGED config
               /\ creq' = [creq EXCEPT !.pc = "idle", !.resp = "VALIDATION_ERROR",
                                       !.body = updates]
    /\ UNCHANGED <<dataFile, dataSrc, modelFile, resultFile, alertLog, mailed,
                   history, clock>>
    /\ UNCHANGED <<state, workerVars, requestVars, cliVars>>
    /\ UNCHANGED <<entry, failedInserts, lk, dt, ex, tr>>

\* ------------------------------------------ the command-line pipeline ----
NoCliLocals == [cfg |-> DefaultConfig, features |-> 0, source |-> "none",
                anomalies |-> <<>>, losses |-> <<>>, samples |-> <<>>,
                tell0 |-> FALSE, read |-> <<>>]

CliVarsElse == UNCHANGED <<state, workerVars, requestVars, otherVars>>

\* the pipeline process was started from the command line, or by the server
\* as a subprocess
CliRunning == entry \in {"cli", "api"}

\* the pipeline moves on, to the next step or to `return False`
CliGoto(next, locals) == cpc' = next /\ cl' = locals

CliCall(stage, ok) == ccalls' = Append(ccalls, CallOf(stage, ok))

\* quick_run / main: AnomalyDetectionConfig loads config.json (main.py:96-148),
\* then run_full_pipeline starts
CliStart ==
    /\ entry = "cli" /\ cpc = "idle" /\ Len(cret) < MaxCliRuns
    /\ cpc' = "gen"
    /\ cl' = [NoCliLocals EXCEPT !.cfg = config]
    /\ ccalls' = <<>>
    /\ UNCHANGED <<cret, fileVars>> /\ CliVarsElse

\* main.py:370-372
CliGenerate ==
    /\ CliRunning /\ cpc = "gen"
    /\ \E ok \in BOOLEAN :
          /\ GenerateData(cl.cfg, ok)
          /\ CliCall("generate_data", ok)
          /\ CliGoto(AfterStage(ok, "extract"), cl)
    /\ UNCHANGED <<config, modelFile, resultFile, alertLog, mailed, history, clock>>
    /\ UNCHANGED cret /\ CliVarsElse

\* main.py:374-377
CliExtract ==
    /\ CliRunning /\ cpc = "extract"
    /\ \E ok \in BOOLEAN :
          /\ ok => Extractable(dataFile)
          /\ CliCall("load_and_extract_features", ok)
          /\ CliGoto(AfterStage(ok, "train"),
                     IF ok THEN [cl EXCEPT !.features = dataFile, !.source = dataSrc]
                     ELSE cl)
    /\ UNCHANGED <<cret, fileVars>> /\ CliVarsElse

\* main.py:379-381
CliTrain ==
    /\ CliRunning /\ cpc = "train"
    /\ \E ok \in BOOLEAN :
          /\ modelFile' = (modelFile \/ ok)
          /\ CliCall("train_model", ok)
          /\ CliGoto(AfterStage(ok, "detect"), cl)
    /\ UNCHANGED <<config, dataFile, dataSrc, resultFile, alertLog, mailed, history, clock>>
    /\ UNCHANGED cret /\ CliVarsElse

\* main.py:383-390
CliDetect ==
    /\ CliRunning /\ cpc = "detect"
    /\ \/ /\ modelFile
          /\ \E losses \in [1..cl.features -> LossVals] :
                CliGoto(AfterStage(TRUE, "alert"), Detected(cl, cl.cfg, losses))
          /\ CliCall("detect_anomalies_in_data", TRUE)
       \/ /\ CliGoto(AfterStage(FALSE, "alert"), cl)
          /\ CliCall("detect_anomalies_in_data", FALSE)
    /\ UNCHANGED <<cret, fileVars>> /\ CliVarsElse

\* main.py:392-393: handle_alerts up to the open of the alert file
CliAlert ==
    /\ CliRunning /\ cpc = "alert"
    /\ IF NothingToAlert(cl.anomalies)
       THEN CliCall("handle_alerts", TRUE) /\ CliGoto(AfterAlert(TRUE), cl)
       ELSE \E ok \in BOOLEAN :
               /\ ok => Maskable(dataFile, cl.anomalies)
               /\ IF ok
                  THEN UNCHANGED ccalls /\ CliGoto("append", AlertOpen(cl))
                  ELSE CliCall("handle_alerts", FALSE) /\ CliGoto(AfterAlert(FALSE), cl)
    /\ UNCHANGED <<cret, fileVars>> /\ CliVarsElse

\* handle_alerts goes on: the rows are appended, the e-mail is sent
CliAppend ==
    /\ CliRunning /\ cpc = "append"
    /\ \E written \in BOOLEAN, sent \in BOOLEAN :
          /\ ~MailWanted(cl.cfg) \/ ~written => sent
          /\ AlertSend(cl.cfg, cl, written, sent)
          /\ CliCall("handle_alerts", AlertSent(cl.cfg, written, sent))
          /\ CliGoto(AfterAlert(AlertSent(cl.cfg, written, sent)), AlertClosed(cl))
    /\ UNCHANGED <<config, dataFile, dataSrc, modelFile, resultFile, history, clock>>
    /\ UNCHANGED cret /\ CliVarsElse

\* main.py:395-397
CliExport ==
    /\ CliRunning /\ cpc = "export"
    /\ \E ok \in BOOLEAN :
          /\ ExportResults(cl.cfg, cl.anomalies, cl.losses, ok)
          /\ CliCall("export_detection_results", ok)
          /\ CliGoto(AfterStage(ok, "save"), cl)
    /\ UNCHANGED <<config, dataFile, dataSrc, modelFile, alertLog, mailed, history, clock>>
    /\ UNCHANGED cret /\ CliVarsElse

\* main.py:399-400 and 322-333: save_run_history reads history.json
CliSaveRead ==
    /\ CliRunning /\ cpc = "save"
    /\ CliGoto("write", [cl EXCEPT !.read = history])
    /\ UNCHANGED <<ccalls, cret, fileVars>> /\ CliVarsElse

\* main.py:335-360: the record is appended to the list read and written
CliSaveWrite ==
    /\ CliRunning /\ cpc = "write"
    /\ history' = SaveRunHistory(cl.read, clock, TRUE,
                                 CountTrue(cl.anomalies), Len(cl.anomalies))
    /\ clock' = clock + 1
    /\ CliCall("save_run_history", TRUE)
    /\ CliGoto("log", [cl EXCEPT !.read = <<>>])
    /\ UNCHANGED <<config, dataFile, dataSrc, modelFile, resultFile, alertLog, mailed>>
    /\ UNCHANGED cret /\ CliVarsElse

\* main.py:402-416: the closing log line divides by total_samples; a
\* ZeroDivisionError lands in the except branch, which saves a failure
\* record and returns False
CliLog ==
    /\ CliRunning /\ cpc = "log"
    /\ IF Len(cl.anomalies) > 0
       THEN /\ cret' = Append(cret, TRUE)
            /\ UNCHANGED <<history, clock>>
       ELSE /\ cret' = Append(cret, FALSE)
            /\ history' = SaveRunHistory(history, clock, FALSE, 0, 0)
            /\ clock' = clock + 1
    /\ cpc' = "idle" /\ cl' = NoCliLocals /\ ccalls' = <<>>
    /\ UNCHANGED <<config, dataFile, dataSrc, modelFile, resultFile, alertLog, mailed>>
    /\ CliVarsElse

\* `return False` after a failed step
CliReturnFalse ==
    /\ CliRunning /\ cpc = "fail"
    /\ cret' = Append(cret, FALSE)
    /\ cpc' = "idle" /\ cl' = NoCliLocals /\ ccalls' = <<>>
    /\ UNCHANGED fileVars /\ CliVarsElse

\* ------------------------------------------------ POST /api/upload -------
\* api.py:787-811: upload_file replaces data/traffic.csv by the uploaded
\* file, switches generate_random_data off in config.json and starts
\* run_detection.py, which loads that configuration; the steps of the
\* subprocess are those of the command-line pipeline, and the request is
\* answered from its return code
UploadFile ==
    /\ Serving /\ cpc = "idle" /\ Len(cret) < MaxCliRuns
    /\ \E rows \in 0..MaxSamples : dataFile' = rows
    /\ dataSrc' = "uploaded"
    /\ config' = [config EXCEPT !.generate_random_data = FALSE]
    /\ cpc' = "gen"
    /\ cl' = [NoCliLocals EXCEPT !.cfg = config']
    /\ ccalls' = <<>>
    /\ UNCHANGED <<cret, modelFile, resultFile, alertLog, mailed, history, clock>>
    /\ CliVarsElse

\* ---------------------------------------------- POST /api/automation -----
\* api.py:772-785: trigger_automation runs generate_random_traffic.py and,
\* when that succeeded, run_detection.py, whose steps are those of the
\* command-line pipeline; is_running is not looked at
TriggerAutomation ==
    /\ Serving /\ cpc = "idle" /\ Len(cret) < MaxCliRuns
    /\ \E generated \in BOOLEAN :
          IF generated
          THEN /\ dataFile' = GeneratedRows /\ dataSrc' = "generated"
               /\ cpc' = "gen"
               /\ cl' = [NoCliLocals EXCEPT !.cfg = config]
               /\ ccalls' = <<>>
          ELSE UNCHANGED <<dataFile, dataSrc, cpc, cl, ccalls>>
    /\ UNCHANGED <<cret, config, modelFile, resultFile, alertLog, mailed, history, clock>>
    /\ CliVarsElse

\* ------------------------------------- a caller of save_run_history ------
\* one whole save_run_history call (main.py:319-363); a failure record has
\* the default counts
HistorySave ==
    /\ entry = "history" /\ clock <= MaxInserts
    /\ \E success \in BOOLEAN :
          /\ ~success => failedInserts < MaxFailedInserts
          /\ history' = SaveRunHistory(history, clock, success,
                                       0, IF success THEN MaxSamples ELSE 0)
          /\ failedInserts' = failedInserts + (IF success THEN 0 ELSE 1)
    /\ clock' = clock + 1
    /\ UNCHANGED <<config, dataFile, dataSrc, modelFile, resultFile, alertLog, mailed>>
    /\ UNCHANGED <<state, workerVars, requestVars, cliVars, entry, lk, dt, creq, ex, tr>>

\* ----------------------------------------- ProcessingState and its lock ---
\* the threads that call update/reset, and the thread that calls get_state
Writers == {"worker", "handler"}
Reader == "poll"

\* a state record without mutual exclusion
CanAcquireAnyway(holders) == TRUE

\* `with self._lock`: the lock is taken when no thread holds it
CanAcquire(holders) == holders = {}

\* the keyword arguments of the update calls, and the dictionary of reset()
LockKws ==
    {InitKw(1), CallbackKw(10, "generating"), FailureKw("cannot train model"),
     StopKw(0), ResetKw}

NoLock ==
    [st |-> InitialState, holders |-> {}, committed |-> {InitialState},
     tpc |-> [t \in Writers |-> "idle"], kw |-> [t \in Writers |-> InitialState],
     todo |-> [t \in Writers |-> {}], ops |-> [t \in Writers |-> 0],
     rpc |-> "idle", copy |-> InitialState, copied |-> {}]

LockVarsElse ==
    UNCHANGED <<state, workerVars, requestVars, fileVars, cliVars, entry,
                failedInserts, dt, creq, ex, tr>>

\* update(**kwargs) / reset(): enter `with self._lock` (api.py:97, 108)
LockEnterUpdate(t) ==
    /\ entry = "lock" /\ lk.tpc[t] = "idle" /\ lk.ops[t] < MaxLockOps
    /\ CanAcquire(lk.holders)
    /\ \E kw \in LockKws :
          lk' = [lk EXCEPT !.holders = @ \cup {t}, !.tpc[t] = "in",
                           !.kw[t] = kw, !.todo[t] = DOMAIN kw]
    /\ LockVarsElse

\* self._state.update(kwargs): one key of the dictionary is stored
LockStore(t) ==
    /\ entry = "lock" /\ lk.tpc[t] = "in" /\ lk.todo[t] # {}
    /\ LET k == CHOOSE k \in lk.todo[t] : TRUE IN
          lk' = [lk EXCEPT !.st[k] = lk.kw[t][k], !.todo[t] = @ \ {k}]
    /\ LockVarsElse

\* the end of the with block of update/reset
LockLeaveUpdate(t) ==
    /\ entry = "lock" /\ lk.tpc[t] = "in" /\ lk.todo[t] = {}
    /\ lk' = [lk EXCEPT !.holders = @ \ {t}, !.tpc[t] = "idle",
                        !.ops[t] = @ + 1, !.kw[t] = InitialState,
                        !.committed = @ \cup {lk.st}]
    /\ LockVarsElse

\* get_state(): enter `with self._lock` (api.py:101)
LockEnterRead ==
    /\ entry = "lock" /\ lk.rpc = "idle"
    /\ CanAcquire(lk.holders)
    /\ lk' = [lk EXCEPT !.holders = @ \cup {Reader}, !.rpc = "in"]
    /\ LockVarsElse

\* self._state.copy(): one key of the dictionary is copied
LockCopy ==
    /\ entry = "lock" /\ lk.rpc = "in" /\ lk.copied # DOMAIN lk.st
    /\ LET k == CHOOSE k \in DOMAIN lk.st \ lk.copied : TRUE IN
          lk' = [lk EXCEPT !.copy[k] = lk.st[k], !.copied = @ \cup {k}]
    /\ LockVarsElse

\* the end of the with block of get_state: the copy is returned
LockLeaveRead ==
    /\ entry = "lock" /\ lk.rpc = "in" /\ lk.copied = DOMAIN lk.st
    /\ lk' = [lk EXCEPT !.holders = @ \ {Reader}, !.rpc = "got"]
    /\ LockVarsElse

\* the caller drops the snapshot
LockForget ==
    /\ entry = "lock" /\ lk.rpc = "got"
    /\ lk' = [lk EXCEPT !.rpc = "idle", !.copy = InitialState, !.copied = {}]
    /\ LockVarsElse

\* ------------------------------------------ a caller of detect_anomalies --
\* the reconstruction losses of a row and the thresholds of the detector
\* specification: below, at and above each other
DetectLosses == {DefaultThreshold - 5, DefaultThreshold, DefaultThreshold + 5}

DetectThresholds == {ConfigThreshold, DefaultThreshold, DefaultThreshold + 5}

\* the feature matrices, given by the losses of their rows under the model
LossRows == UNION {[1..n -> DetectLosses] : n \in 0..MaxRows}

NoDetector == [losses |-> <<>>, returned |-> <<>>]

\* detect_anomalies (detect_anomaly.py:5-17): `return anomalies.numpy(),
\* loss.numpy()`, kept with the threshold of the call
DetectAnomalies(losses, threshold) ==
    [threshold |-> threshold, anomalies |-> DetectFlags(losses, threshold),
     losses |-> losses]

\* one detect_anomalies call on the same data with some threshold
DetectCall ==
    /\ entry = "detect" /\ Len(dt.returned) < MaxDetectCalls
    /\ \E threshold \in DetectThresholds :
          dt' = [dt EXCEPT !.returned = Append(@, DetectAnomalies(dt.losses, threshold))]
    /\ UNCHANGED <<state, workerVars, requestVars, fileVars, cliVars, entry,
                   failedInserts, lk, creq, ex, tr>>

\* --------------------------------------------- a caller of export_results --
\* the losses handed to the exporter: finite ones and the three others
ExportLosses == {0, DefaultThreshold, NaN, PosInf, NegInf}

\* the argument pairs: flags and losses of the same number of rows
ExportInputs ==
    UNION {[anomalies : [1..n -> BOOLEAN], losses : [1..n -> ExportLosses]] :
              n \in 0..MaxRows}

NoExporter == [exports |-> 0, anomalies |-> <<>>, losses |-> <<>>]

\* one export_results call (export_result.py:4-15) on result.json
ExportCall ==
    /\ entry = "export" /\ ex.exports < MaxExports
    /\ \E args \in ExportInputs :
          /\ resultFile' = ExportArtifact(args.anomalies, args.losses)
          /\ ex' = [exports |-> ex.exports + 1, anomalies |-> args.anomalies,
                    losses |-> args.losses]
    /\ UNCHANGED <<config, dataFile, dataSrc, modelFile, alertLog, mailed, history, clock>>
    /\ UNCHANGED <<state, workerVars, requestVars, cliVars, entry,
                   failedInserts, lk, dt, creq, tr>>

\* ------------------------------------------------ a caller of train_model --
\* two feature matrices
TrainData == {"A", "B"}

\* the state of torch's random generator, counted in models constructed
\* since set_seed(42); train_model.py:14 seeds it when the module is imported
SeededRng == 0

\* Autoencoder(input_dim) draws its initial weights from the generator
RngAfterInit(rng) == rng + 1

\* the parameters train_autoencoder ends with: every step of it but the
\* initial weights is a function of the data, and the initial weights are a
\* function of the generator state
ModelParameters(data, rng) == [data |-> data, init |-> rng]

NoParameters == [data |-> "none", init |-> -1]

\* train_model (main.py:216-225): True unless train_autoencoder raised; the
\* loss is printed and never tested
TrainModel(raised, finite) == ~raised

NoTrainer == [rng |-> SeededRng, runs |-> <<>>]

\* one train_model call: train_autoencoder (train_model.py:35-55) constructs
\* the model, runs the epochs, in which the loss stays finite or not, and
\* saves the parameters; raised says that it raised an exception, before the
\* model was constructed (os.makedirs) or after (torch.save)
TrainCall ==
    /\ entry = "train" /\ Len(tr.runs) < MaxTrainCalls
    /\ \E data \in TrainData, finite \in BOOLEAN, raised \in BOOLEAN, early \in BOOLEAN :
          LET ok == TrainModel(raised, finite) IN
          /\ early => raised
          /\ tr' = [rng |-> IF early THEN tr.rng ELSE RngAfterInit(tr.rng),
                    runs |-> Append(tr.runs,
                               [data |-> data, finite |-> finite, ok |-> ok,
                                params |-> IF ok THEN ModelParameters(data, tr.rng)
                                           ELSE NoParameters])]
          /\ modelFile' = (modelFile \/ ok)
    /\ UNCHANGED <<config, dataFile, dataSrc, resultFile, alertLog, mailed, history, clock>>
    /\ UNCHANGED <<state, workerVars, requestVars, cliVars, entry,
                   failedInserts, lk, dt, creq, ex>>

\* a new process (run_detection.py, or the server started again) imports
\* train_model and so calls set_seed(42)
TrainImport ==
    /\ entry = "train" /\ tr.rng # SeededRng
    /\ tr' = [tr EXCEPT !.rng = SeededRng]
    /\ UNCHANGED <<state, workerVars, requestVars, fileVars, cliVars, entry,
                   failedInserts, lk, dt, creq, ex>>

\* ------------------------------------------------- the specifications ----
InitServer ==
    /\ state = InitialState
    /\ wpc = [w \in Workers |-> "unborn"]
    /\ wl = [w \in Workers |-> NoLocals]
    /\ wcfg = [w \in Workers |-> DefaultConfig]
    /\ published = [w \in Workers |-> <<>>]
    /\ calls = [w \in Workers |-> <<>>]
    /\ rpc = [w \in Workers |-> "idle"]
    /\ resp = NoResponse
    /\ spc = "idle" /\ ssnap = 0 /\ sigpc = "none" /\ serverUp = TRUE

InitCli ==
    /\ cpc = "idle" /\ cl = NoCliLocals /\ ccalls = <<>> /\ cret = <<>>

InitFiles ==
    /\ config = DefaultConfig /\ dataFile = -1 /\ dataSrc = "none" /\ modelFile = FALSE
    /\ resultFile = NoResult /\ alertLog = <<>> /\ mailed = 0
    /\ history = <<>> /\ clock = 1

\* run_detection.py may find a configuration with generation or export
\* switched off, with e-mail alerts switched on, with or without the SMTP
\* settings, and a data file left by an upload
InitFilesCli ==
    /\ \E g \in BOOLEAN, e \in BOOLEAN, m \in BOOLEAN, c \in BOOLEAN :
          config = [DefaultConfig EXCEPT !.generate_random_data = g,
                                         !.export_results = e, !.email_alerts = m,
                                         !.credentials = c]
    /\ dataFile \in -1..MaxSamples /\ modelFile = FALSE
    /\ dataSrc = IF dataFile = -1 THEN "none" ELSE "uploaded"
    /\ resultFile = NoResult /\ alertLog = <<>> /\ mailed = 0
    /\ history = <<>> /\ clock = 1

InitOther ==
    /\ failedInserts = 0 /\ lk = NoLock /\ dt = NoDetector /\ creq = NoConfigRequest
    /\ ex = NoExporter /\ tr = NoTrainer

\* the API server (api.py): start and status requests and the workers
Init == entry = "api" /\ InitServer /\ InitCli /\ InitFiles /\ InitOther

Next ==
    \/ \E r \in 1..MaxStarts : StartDetection(r) \/ StartRespond(r) \/ WorkerNext(r)
    \/ GetStatus

Spec == Init /\ [][Next]_vars

\* the API server with stop requests and the signal handler
ControlNext ==
    \/ \E r \in 1..MaxRuns : StartDetection(r) \/ StartRespond(r) \/ WorkerNext(r)
    \/ GetStatus \/ StopCheck \/ StopUpdate \/ SignalCheck \/ SignalUpdate

ControlSpec == Init /\ [][ControlNext]_vars

\* the pipeline by itself: the API server with start and status requests
\* only, or the command line
RunInit ==
    \/ entry = "api" /\ InitServer /\ InitCli /\ InitFiles /\ InitOther
    \/ entry = "cli" /\ InitServer /\ InitCli /\ InitFilesCli /\ InitOther

\* the steps of a started run_full_pipeline
CliSteps ==
    \/ CliGenerate \/ CliExtract \/ CliTrain \/ CliDetect \/ CliAlert \/ CliAppend
    \/ CliExport \/ CliSaveRead \/ CliSaveWrite \/ CliLog \/ CliReturnFalse

CliNext == CliStart \/ CliSteps

RunNext ==
    \/ \E r \in 1..MaxRuns : StartDetection(r) \/ StartRespond(r) \/ WorkerNext(r)
    \/ GetStatus
    \/ CliNext

RunSpec == RunInit /\ [][RunNext]_vars

\* started threads keep running: while some worker can take a step, one does
FairRunSpec ==
    /\ RunSpec
    /\ WF_vars(\E w \in 1..MaxRuns : WorkerNext(w))

\* the API server with stop and configuration requests
ConfigNext ==
    \/ \E r \in 1..MaxRuns : StartDetection(r) \/ StartRespond(r) \/ WorkerNext(r)
    \/ GetStatus \/ StopCheck \/ StopUpdate \/ ConfigCheck \/ ConfigWrite

ConfigSpec == Init /\ [][ConfigNext]_vars

\* the API server with a file upload or an automation request next to a run
UploadNext ==
    \/ \E r \in 1..MaxRuns : StartDetection(r) \/ StartRespond(r) \/ WorkerNext(r)
    \/ GetStatus \/ UploadFile \/ TriggerAutomation \/ CliSteps

UploadSpec == Init /\ [][UploadNext]_vars

\* save_run_history called again and again on an empty history.json
HistoryInit == entry = "history" /\ InitServer /\ InitCli /\ InitFiles /\ InitOther

HistoryNext == HistorySave

HistorySpec == HistoryInit /\ [][HistoryNext]_vars

\* two threads that update a ProcessingState and one that reads it
LockInit == entry = "lock" /\ InitServer /\ InitCli /\ InitFiles /\ InitOther

LockNext ==
    \/ \E t \in Writers : LockEnterUpdate(t) \/ LockStore(t) \/ LockLeaveUpdate(t)
    \/ LockEnterRead \/ LockCopy \/ LockLeaveRead \/ LockForget

LockSpec == LockInit /\ [][LockNext]_vars

\* detect_anomalies called on one feature matrix with several thresholds
DetectInit ==
    /\ entry = "detect" /\ InitServer /\ InitCli /\ InitFiles
    /\ failedInserts = 0 /\ lk = NoLock /\ creq = NoConfigRequest
    /\ ex = NoExporter /\ tr = NoTrainer
    /\ \E losses \in LossRows : dt = [NoDetector EXCEPT !.losses = losses]

DetectNext == DetectCall

DetectSpec == DetectInit /\ [][DetectNext]_vars

\* export_results called again and again on the same result.json
ExportInit == entry = "export" /\ InitServer /\ InitCli /\ InitFiles /\ InitOther

ExportNext == ExportCall

ExportSpec == ExportInit /\ [][ExportNext]_vars

\* train_model called again and again, in one process or in a new one
TrainInit == entry = "train" /\ InitServer /\ InitCli /\ InitFiles /\ InitOther

TrainNext == TrainCall \/ TrainImport

TrainSpec == TrainInit /\ [][TrainNext]_vars

\* ---------------------------------------------------------- the claims ---
\* the workers whose thread has started and has not ended
ActiveWorkers == {w \in Workers : wpc[w] \notin {"unborn", "done"}}

\* C1: at most one pipeline run is active at any time: a start request that
\* arrives while an accepted run has not ended starts no second worker.
C1_AtMostOneRunActive == Cardinality(ActiveWorkers) <= 1

FailureRecorded ==
    \E i \in 1..Len(history) :
        /\ ~history[i].success
        /\ history[i].anomalies_count = 0 /\ history[i].total_samples = 0

\* C2: when a step of a run has failed, history.json holds a record with
\* success = false and zero counts, for the API worker (the run state says
\* success = False) and for run_full_pipeline (it returned False).
C2_FailedRunIsRecorded ==
    /\ state.success = "False" => FailureRecorded
    /\ (\E i \in 1..Len(cret) : ~cret[i]) => FailureRecorded

\* the steps whose failure aborts the run
AbortingStages ==
    {"generate_data", "load_and_extract_features", "train_model",
     "detect_anomalies_in_data"}

FailedAt(trace, i) == trace[i].stage \in AbortingStages /\ ~trace[i].ok

\* C3: when the generate, extract, train or detect step of a run fails, it is
\* the last call of that run (no later step, no history write), and the worker
\* ends with is_running = false, success = false and a non-empty error and
\* leaves the files as they are; run_full_pipeline returns False at once.
C3_StopsAtFailedStep ==
    /\ [](\A w \in Workers : \A i \in 1..Len(calls[w]) :
             FailedAt(calls[w], i) => i = Len(calls[w]) /\ wpc[w] = "fail")
    /\ [](\A i \in 1..Len(ccalls) :
             FailedAt(ccalls, i) => i = Len(ccalls) /\ cpc = "fail")
    /\ [][\A w \in Workers :
             wpc[w] = "fail" /\ wpc'[w] # "fail" =>
                /\ wpc'[w] = "done"
                /\ ~state'.is_running /\ state'.success = "False"
                /\ state'.error \notin {None, ""}
                /\ UNCHANGED fileVars]_vars
    /\ [][cpc = "fail" /\ cpc' # "fail" =>
             cpc' = "idle" /\ cret' = Append(cret, FALSE) /\ UNCHANGED fileVars]_vars

C3_Witness ==
    /\ \E w \in Workers : wpc[w] = "done"
    /\ ~state.is_running /\ state.success = "False"
    /\ state.error = "cannot train model"

AllButAlertsOk(trace) ==
    \A i \in 1..Len(trace) : trace[i].ok \/ trace[i].stage = "handle_alerts"

\* C4: a run reaches its completion (history record written, success about
\* to be published or returned) only if every step other than alerting
\* succeeded; a failed export does not end in Completed.
C4_CompletedOnlyIfStepsSucceeded ==
    /\ \A w \in Workers : wpc[w] = "final" => AllButAlertsOk(calls[w])
    /\ cpc = "log" => AllButAlertsOk(ccalls)

Progresses == <<10, 30, 50, 70, 85, 95, 100>>

PipelineStages ==
    <<"generate_data", "load_and_extract_features", "train_model",
      "detect_anomalies_in_data", "handle_alerts", "export_detection_results">>

IsStage(c) == c.stage # "save_run_history"

StagesOf(trace) ==
    LET sel == SelectSeq(trace, IsStage) IN [i \in 1..Len(sel) |-> sel[i].stage]

NoStepFailed(trace) == \A i \in 1..Len(trace) : trace[i].ok

\* C5: the progress values a worker publishes lie in 0..100 and increase,
\* each one is stored in the run state when it is published, and a worker
\* about to publish Completed after a run without a failed step has called
\* the six stages once each in order and published 10, 30, 50, 70, 85, 95, 100.
C5_StagesAndProgressInOrder ==
    /\ [](\A w \in Workers :
            /\ \A i \in 1..Len(published[w]) : published[w][i] \in 0..100
            /\ \A i \in 1..(Len(published[w]) - 1) :
                  published[w][i] < published[w][i + 1]
            /\ wpc[w] = "final" /\ NoStepFailed(calls[w]) =>
                  published[w] = Progresses /\ StagesOf(calls[w]) = PipelineStages)
    /\ [][\A w \in Workers :
            Len(published'[w]) > Len(published[w]) =>
               state'.progress = published'[w][Len(published'[w])]]_vars

C5_Witness ==
    \E w \in Workers :
        wpc[w] = "final" /\ NoStepFailed(calls[w]) /\ state.progress = 100

\* C6: a snapshot returned by get_state equals the state as it was between
\* two whole update/reset calls, and at most one thread is inside the lock.
C6_SnapshotsAreWhole ==
    /\ Cardinality(lk.holders) <= 1
    /\ lk.rpc = "got" => lk.copy \in lk.committed

C6_Witness ==
    /\ lk.rpc = "got" /\ lk.copy.is_running /\ lk.copy.run_id = 1
    /\ \E t \in Writers : lk.tpc[t] = "in"

\* C7: the run state is modified only by steps of a pipeline worker; no
\* request handler and no signal handler changes a field of it.
C7_OnlyWorkerWritesState == [][state' # state => wpc' # wpc]_vars

\* C8: after k save_run_history calls on an empty history the file holds at
\* most 100 records, the last min(k, 100) inserted in insertion order (the
\* i-th insertion carries timestamp i); after the 101st the first is gone and
\* the 101st is there.
C8_HistoryKeepsLast100 ==
    LET k == clock - 1
        n == IF k < 100 THEN k ELSE 100
    IN  /\ Len(history) = n
        /\ \A i \in 1..n : history[i].timestamp = k - n + i
        /\ k = 101 => /\ \A i \in 1..n : history[i].timestamp # 1
                      /\ \E i \in 1..n : history[i].timestamp = 101

C8_Witness ==
    /\ entry = "history" /\ clock = 102 /\ Len(history) = 100
    /\ failedInserts = 1

\* C9: the history write of a successful run adds exactly one record to
\* history.json: success = true, anomalies_count the number of true flags,
\* total_samples the number of flags, anomaly_rate their quotient times 100.
C9_OneRecordPerSuccessfulRun ==
    [][\A w \in Workers :
          wpc[w] = "write" /\ wpc'[w] = "p100" =>
             /\ Len(history') = Len(history) + 1
             /\ SubSeq(history', 1, Len(history)) = history
             /\ LET rec == history'[Len(history')] IN
                   /\ rec.success
                   /\ rec.anomalies_count = CountTrue(wl[w].anomalies)
                   /\ rec.total_samples = Len(wl[w].anomalies)
                   /\ rec.anomalies_count <= rec.total_samples
                   /\ rec.anomaly_rate[1] * rec.total_samples
                         = rec.anomalies_count * 100 * rec.anomaly_rate[2]]_vars

\* a terminal run state: Completed, or Failed with a message and an error
Terminal(s) ==
    /\ ~s.is_running
    /\ \/ s.success = "True"
       \/ /\ s.success = "False"
          /\ s.error \notin {None, ""} /\ s.message \notin {None, ""}

\* C10: every worker that is started eventually ends and stays ended (from
\* some point on it is either never started or done), and the step that ends
\* it leaves a terminal run state: is_running = false with success = true, or
\* success = false with a message and an error.
C10_WorkerReachesTerminalState ==
    /\ \A w \in 1..MaxRuns : <>[](wpc[w] \in {"unborn", "done"})
    /\ [][\A w \in Workers :
             wpc[w] # "done" /\ wpc'[w] = "done" => Terminal(state')]_vars

C10_Witness ==
    /\ \E w \in Workers : wpc[w] = "done"
    /\ Terminal(state) /\ state.success = "True"

\* a handle_alerts call of the trace caught an exception
AlertFailed(trace) ==
    \E i \in 1..Len(trace) : trace[i].stage = "handle_alerts" /\ ~trace[i].ok

\* the trace has an export_detection_results call after its handle_alerts call
ExportedAfterAlert(trace) ==
    \E i \in 1..Len(trace) : \E j \in (i + 1)..Len(trace) :
        /\ trace[i].stage = "handle_alerts"
        /\ trace[j].stage = "export_detection_results"

\* C13: a failure in the alerting step (reading the records, appending to the
\* alert log, sending the e-mail) never aborts the run: the step that ends
\* handle_alerts always leads to the export, a run whose alerting failed is
\* never in the failure branch because of it, and once it is past the export
\* position the export has been called.
C13_AlertFailureNeverAborts ==
    /\ [](\A w \in Workers :
            AlertFailed(calls[w]) =>
               /\ wpc[w] \in {"export", "save", "write", "p100", "final"}
               /\ wpc[w] # "export" => ExportedAfterAlert(calls[w]))
    /\ [](AlertFailed(ccalls) =>
            /\ cpc \in {"export", "save", "write", "log", "fail"}
            /\ cpc # "export" => ExportedAfterAlert(ccalls)
            /\ cpc = "fail" => ~ccalls[Len(ccalls)].ok
                               /\ ccalls[Len(ccalls)].stage = "export_detection_results")
    /\ [][\A w \in Workers :
            wpc[w] \in {"alert", "append"} /\ wpc'[w] # wpc[w] =>
               (wpc'[w] \in {"append", "export"})]_vars
    /\ [][(cpc \in {"alert", "append"}) /\ cpc' # cpc =>
             (cpc' \in {"append", "export"})]_vars

C13_Witness ==
    \E w \in Workers :
        /\ wpc[w] = "final" /\ AlertFailed(calls[w])
        /\ \A i \in 1..Len(calls[w]) :
              calls[w][i].ok \/ calls[w][i].stage = "handle_alerts"

\* C14: when the anomaly count of a run is zero the alerting step does
\* nothing: the step that ends handle_alerts leaves alert.csv as it is and
\* sends no e-mail, and such a run never gets to the append of rows.
C14_NoAlertForZeroCount ==
    /\ [][\A w \in Workers :
            wpc[w] = "alert" /\ CountTrue(wl[w].anomalies) = 0 /\ wpc'[w] # "alert" =>
               wpc'[w] = "export" /\ alertLog' = alertLog /\ mailed' = mailed]_vars
    /\ [][(cpc = "alert") /\ CountTrue(cl.anomalies) = 0 /\ cpc' # "alert" =>
               cpc' = "export" /\ alertLog' = alertLog /\ mailed' = mailed]_vars
    /\ [](\A w \in Workers : wpc[w] = "append" => CountTrue(wl[w].anomalies) > 0)
    /\ [](cpc = "append" => CountTrue(cl.anomalies) > 0)

C14_Witness ==
    /\ cpc = "export" /\ MailWanted(cl.cfg)
    /\ Len(cl.anomalies) > 0 /\ CountTrue(cl.anomalies) = 0
    /\ ccalls[Len(ccalls)] = CallOf("handle_alerts", TRUE)
    /\ alertLog = <<>> /\ mailed = 0

\* C12: a stop request accepted during a run is honoured between stages:
\* while the run state carries the accepted stop request of a run in
\* progress, no worker calls a further stage function.
C12_NoStageAfterStop ==
    [][state.is_running /\ state.message = "stop requested" =>
          \A w \in Workers : Len(calls'[w]) <= Len(calls[w])]_vars

\* C19: the threshold the detection of a run applies is the threshold of the
\* configuration the run loaded: the flags of a run are its losses compared
\* with that threshold.
C19_ConfiguredThresholdApplied ==
    /\ \A w \in Workers :
          wl[w].anomalies = DetectFlags(wl[w].losses, wcfg[w].threshold)
    /\ cl.anomalies = DetectFlags(cl.losses, cl.cfg.threshold)

\* C17: detect_anomalies returns flags and losses of the same length, the
\* number of rows, and the flag of row i is true exactly when its loss is
\* strictly greater than the threshold; a loss equal to the threshold is not
\* flagged.
C17_FlagsAreLossAboveThreshold ==
    \A c \in 1..Len(dt.returned) :
        LET r == dt.returned[c] IN
        /\ Len(r.anomalies) = Len(dt.losses) /\ Len(r.losses) = Len(dt.losses)
        /\ r.losses = dt.losses
        /\ \A i \in 1..Len(dt.losses) :
              /\ r.anomalies[i] <=> (r.losses[i] > r.threshold)
              /\ r.losses[i] = r.threshold => ~r.anomalies[i]

C17_Witness ==
    \E c \in 1..Len(dt.returned) :
        LET r == dt.returned[c] IN
        /\ Len(r.anomalies) = MaxRows
        /\ \E i, j \in 1..MaxRows :
              /\ r.losses[i] = r.threshold /\ ~r.anomalies[i]
              /\ r.losses[j] > r.threshold /\ r.anomalies[j]

\* C18: for the same losses and two thresholds t1 < t2, every row flagged at
\* t2 is flagged at t1, and the anomaly count at t1 is at least the count
\* at t2.
C18_ThresholdMonotone ==
    \A c1, c2 \in 1..Len(dt.returned) :
        LET r1 == dt.returned[c1]
            r2 == dt.returned[c2]
        IN  r1.threshold < r2.threshold =>
               /\ \A i \in 1..Len(dt.losses) : r2.anomalies[i] => r1.anomalies[i]
               /\ CountTrue(r1.anomalies) >= CountTrue(r2.anomalies)

C18_Witness ==
    \E c1, c2 \in 1..Len(dt.returned) :
        LET r1 == dt.returned[c1]
            r2 == dt.returned[c2]
        IN  /\ r1.threshold < r2.threshold
            /\ CountTrue(r1.anomalies) > CountTrue(r2.anomalies)
            /\ CountTrue(r2.anomalies) > 0

\* the keys the configuration contract recognizes: data source path, model
\* artifact path, output directory, alert log path, threshold, epoch count,
\* notification toggle and credentials, auto-generate flag, export flag
RecognizedKeys ==
    {"data_path", "model_path", "output_dir", "alert_file", "threshold", "epochs",
     "email_alerts", "email_recipient", "smtp_server", "smtp_port", "smtp_user",
     "smtp_password", "from_email", "generate_random_data", "export_results"}

\* C20: a configuration update that was not turned away for a run in
\* progress is answered with a validation error when it carries a key
\* outside the recognized set, and is accepted when it carries recognized
\* keys only (with well-typed values).
C20_UnrecognizedKeysRejected ==
    creq.resp \in {"success", "VALIDATION_ERROR"} =>
       /\ creq.body.keys \ RecognizedKeys # {} => creq.resp = "VALIDATION_ERROR"
       /\ creq.body.keys \subseteq RecognizedKeys /\ creq.body.ints =>
             creq.resp = "success"

\* the run state of a run that ended in Failed
FailedState(s) == ~s.is_running /\ s.success = "False"

\* a step of a started worker thread
WorkerStep == \E w \in Workers : wpc[w] # "unborn" /\ wpc'[w] # wpc[w]

\* C11: after a run has ended in Failed, no step other than a step of a
\* pipeline worker (a status poll, either half of a stop request, either
\* half of a configuration request, a start request) changes the error
\* message or the run id of the run state.
C11_ErrorAndRunIdRetained ==
    [][FailedState(state) /\ ~WorkerStep =>
          state'.error = state.error /\ state'.run_id = state.run_id]_vars

C11_Witness ==
    /\ FailedState(state) /\ state.message = "stop requested"
    /\ state.error = "cannot train model" /\ state.run_id = 1
    /\ creq.resp = "success" /\ config # DefaultConfig

\* C16: the records a run is about to append to the alert log are the
\* records, at the flagged positions and in order, of the data file content
\* from which the run extracted its features.
C16_AlertRecordsOfExtractedInput ==
    /\ \A w \in Workers :
          wpc[w] = "append" =>
             wl[w].samples = AbnormalSamples(wl[w].source, wl[w].anomalies)
    /\ cpc = "append" => cl.samples = AbnormalSamples(cl.source, cl.anomalies)

\* the positions of the header rows of an alert log
HeaderRowsAt(log) == {i \in 1..Len(log) : log[i].header}

\* C15: the alert log is well-formed after every dispatch: when it is not
\* empty it has exactly one header row, and that is its first row.
C15_OneHeaderFirst ==
    alertLog # <<>> => HeaderRowsAt(alertLog) = {1}

\* C21: result.json holds the flags and the losses of the last export_results
\* call and nothing of an earlier one: the flags as given, as many losses as
\* given, 0 in place of every NaN, +infinity and -infinity, and every finite
\* loss as given.
C21_ArtifactHoldsCleanLosses ==
    ex.exports > 0 =>
       /\ resultFile.exists
       /\ resultFile.anomalies = ex.anomalies
       /\ Len(resultFile.losses) = Len(ex.losses)
       /\ \A i \in 1..Len(ex.losses) :
             resultFile.losses[i] = IF IsNotFinite(ex.losses[i]) THEN 0
                                    ELSE ex.losses[i]

\* C22: a run over a data file with 0 records goes on without error: the
\* extraction step of a run that finds the file with 0 rows yields an empty
\* feature matrix and the run goes on to the training.
C22_EmptyInputIsExtracted ==
    /\ [][\A w \in Workers :
            wpc[w] = "extract" /\ dataFile = 0 /\ wpc'[w] # "extract" =>
               wpc'[w] = "train" /\ wl'[w].features = 0]_vars
    /\ [][(cpc = "extract") /\ dataFile = 0 /\ cpc' # "extract" =>
             cpc' = "train" /\ cl'.features = 0]_vars

\* C23: training is deterministic across runs: any two train_model calls
\* that succeeded on the same feature matrix, in the same process or not,
\* ended with the same model parameters.
C23_SameDataSameParameters ==
    \A i, j \in 1..Len(tr.runs) :
        tr.runs[i].ok /\ tr.runs[j].ok /\ tr.runs[i].data = tr.runs[j].data =>
           tr.runs[i].params = tr.runs[j].params

\* C24: a train_model call in which the loss became non-finite reports a
\* failure, so that the run goes to its failure branch and not on to the
\* detection, and returns no parameters.
C24_NonFiniteLossFailsTraining ==
    \A i \in 1..Len(tr.runs) :
        ~tr.runs[i].finite =>
           /\ ~tr.runs[i].ok
           /\ AfterStage(tr.runs[i].ok, "detect") = "fail"
           /\ tr.runs[i].params = NoParameters

\* the run at the append of its alert rows appends them and goes on to the
\* export in this step
AppendsRows(pc, pcNext, locals) ==
    /\ pc = "append" /\ pcNext = "export"
    /\ alertLog' = alertLog \o AlertRows(locals.tell0, locals.samples)

\* C25: an alert e-mail is sent only by a run whose configuration has the
\* toggle on and all six settings non-empty, and only in the step in which
\* that run's rows have reached the alert log; a run with the toggle on and
\* a setting missing sends nothing and goes on to the export.
C25_MailOnlyWithCredentialsAfterAppend ==
    /\ [][mailed' # mailed =>
            /\ mailed' = mailed + 1
            /\ \/ \E w \in Workers :
                     /\ wcfg[w].email_alerts /\ wcfg[w].credentials
                     /\ AppendsRows(wpc[w], wpc'[w], wl[w])
               \/ /\ cl.cfg.email_alerts /\ cl.cfg.credentials
                  /\ AppendsRows(cpc, cpc', cl)]_vars
    /\ [][(cpc = "append") /\ cl.cfg.email_alerts /\ ~cl.cfg.credentials /\ cpc' # cpc =>
             mailed' = mailed /\ cpc' = "export"]_vars
    /\ [][\A w \in Workers :
             wpc[w] = "append" /\ wcfg[w].email_alerts /\ ~wcfg[w].credentials
                /\ wpc'[w] # wpc[w] =>
                mailed' = mailed /\ wpc'[w] = "export"]_vars

C25_Witness ==
    /\ mailed = 1 /\ Len(alertLog) >= 2 /\ cpc = "export"
    /\ cl.cfg.email_alerts /\ cl.cfg.credentials
    /\ ccalls[Len(ccalls)] = CallOf("handle_alerts", TRUE)

\* the run state of a run that has ended, Completed or Failed
EndedState(s) == ~s.is_running /\ s.success # None

\* the first update of a new run
NewRunStarts == \E w \in Workers : wpc[w] = "init" /\ wpc'[w] = "gen"

\* the fields of the run state that describe the outcome of a run
OutcomeOf(s) ==
    <<s.progress, s.message, s.success, s.error, s.anomalies_count, s.total_samples>>

\* C26: Completed and Failed are terminal: once a run has ended with
\* is_running = false, no step but the first update of a new run changes
\* progress, message, success, error or the counts of the run state.
C26_EndedStateIsStable ==
    [][EndedState(state) /\ ~NewRunStarts => OutcomeOf(state') = OutcomeOf(state)]_vars

\* a start request has been accepted and the run it started has not ended
RunInProgress == \E w \in Workers : wpc[w] \notin {"unborn", "done"}

\* C27: between the acceptance of a start request and the end of its run
\* config.json is not changed, and a configuration update request that
\* arrives then is answered with PROCESS_RUNNING.
C27_ConfigFixedDuringRun ==
    [][RunInProgress =>
          /\ config' = config
          /\ creq'.posts > creq.posts =>
                creq'.pc = "idle" /\ creq'.resp = "PROCESS_RUNNING"]_vars

\* C28: in every run state a status poll can read, progress = 100 implies
\* that the run has finished: is_running is false and success is true.
C28_FullProgressMeansFinished ==
    GetState(state).progress = 100 =>
       ~GetState(state).is_running /\ GetState(state).success = "True"

\* C29: the run_id in the answer to an accepted start request is the id of
\* the run that request started (run r of request r), so neither the empty
\* id of the initial state nor the id of an earlier run.
C29_ResponseNamesStartedRun ==
    [][\A r \in Workers :
          rpc[r] = "started" /\ rpc'[r] = "done" =>
             resp'.error = None /\ resp'.run_id = r]_vars

\* C30: no history record is lost when runs overlap: every write of
\* history.json, by the API worker or by a run_detection.py subprocess,
\* keeps the records that are in the file and adds one (fewer than 100
\* records are written).
C30_HistoryWritesOnlyAppend ==
    [][history' # history =>
          /\ Len(history') = Len(history) + 1
          /\ \A i \in 1..Len(history) : history'[i] = history[i]]_vars

====
